---------------------------- MODULE Spec2Model ----------------------------
(***************************************************************************)
(* Model of PWGEM/Dilepton/TableProducer/skimmerPrimaryMuon.cxx:           *)
(* the task skimmerPrimaryMuon (initCCDB, isSelected, fillFwdTrackTable    *)
(* and the six process functions) and the two post-passes                  *)
(* associateAmbiguousMuon and associateSameMFT.                            *)
(*                                                                         *)
(* Floating-point quantities are fixed-point integers:                     *)
(*   pt, eta                  in units of 0.1  (GeV/c, pseudorapidity)     *)
(*   rAtAbsorberEnd, xAbs...  in units of 0.1 cm                           *)
(*   p                        in GeV/c                                     *)
(*   dcaX, dcaY, dcaXY        in cm                                        *)
(*   pDCA                     in GeV/c cm                                  *)
(*   chi2, covariance terms   as plain numbers                             *)
(* The input values are chosen so that every quotient and square root      *)
(* the code takes on them is an integer, so the integer operators below    *)
(* give the value the float code gives; the one exception is the refitted  *)
(* pt, which is rounded down to 0.1 GeV/c.  NaN is not in the domain.      *)
(***************************************************************************)
EXTENDS Integers, Sequences, FiniteSets, TLC

VARIABLES
  cfg,                \* the Configurables of the task (lines 69-89)
  process,            \* the process function enabled by its PROCESS_SWITCH
  pc,                 \* position of the enabled process function
  mRunNumber,         \* skimmerPrimaryMuon::mRunNumber
  fieldRun,           \* run whose field the global Propagator/TrackExtrap holds
  geometryLoaded,     \* o2::base::GeometryManager::isGeometryLoaded()
  lookups,            \* runs for which the CCDB lookup was made, in order
  currentCollision,   \* the row of the collisions table the collision loop is at
  nextCollision,      \* global index of the next row of the collisions table
  fwdtracks,          \* input table MyFwdTracks
  fwdtrackIndices,    \* input table aod::FwdTrackAssoc
  mapAmb,             \* local map fwdtrack.globalIndex() -> isAmb
  todo,               \* rows of the current collision's slice still to visit
  emprimarymuons,     \* Produces<aod::EMPrimaryMuons>
  emprimarymuonscov,  \* Produces<aod::EMPrimaryMuonsCov>
  em_amb_muon_ids,    \* Produces<aod::EMAmbiguousMuonSelfIds>
  em_same_mft_ids,    \* Produces<aod::EMGlobalMuonSelfIds>
  mfttracks,          \* input table aod::MFTTracks
  fillArgs,           \* arguments and propagation results of a single fillFwdTrackTable call
  call,               \* trace of the fillFwdTrackTable call of the last step, if any
  resolved,           \* which of the two post-pass tasks have run
  selArgs,            \* arguments of an isSelected call
  selResult           \* its return value

vars == <<cfg, process, pc, mRunNumber, fieldRun, geometryLoaded, lookups, currentCollision,
          nextCollision, fwdtracks, fwdtrackIndices, mapAmb, todo, emprimarymuons, emprimarymuonscov,
          em_amb_muon_ids, em_same_mft_ids, mfttracks, fillArgs, call, resolved,
          selArgs, selResult>>

-----------------------------------------------------------------------------
(* o2::aod::fwdtrack::ForwardTrackTypeEnum, in the order of muon_types.    *)
GlobalMuonTrack == 0
GlobalMuonTrackOtherMatch == 1
GlobalForwardTrack == 2
MuonStandaloneTrack == 3
MCHStandaloneTrack == 4
TrackTypes == {GlobalMuonTrack, GlobalMuonTrackOtherMatch, GlobalForwardTrack,
               MuonStandaloneTrack, MCHStandaloneTrack}

(* The default values of the Configurables.  maxPt and maxDCAxy (1e+10)    *)
(* and maxChi2SA, maxChi2GL (1e+6) are written as 10^9 and 10^6: both are  *)
(* above every value of the input domain.                                  *)
DefaultCfg ==
  [minPt |-> 2, maxPt |-> 1000000000,
   minEtaSA |-> -40, maxEtaSA |-> -25,
   minEtaGL |-> -36, maxEtaGL |-> -25,
   minRabsGL |-> 276, minRabs |-> 176, midRabs |-> 265, maxRabs |-> 895,
   maxDCAxy |-> 1000000000,
   maxPDCAforLargeR |-> 324, maxPDCAforSmallR |-> 594,
   maxMatchingChi2MCHMFT |-> 50,
   maxChi2SA |-> 1000000, maxChi2GL |-> 1000000,
   refitGlobalMuon |-> TRUE]

(* A user configuration in which every cut lies inside the input domain.   *)
TightCfg ==
  [DefaultCfg EXCEPT !.maxPt = 30, !.maxDCAxy = 5, !.maxChi2SA = 60,
                     !.maxChi2GL = 4, !.refitGlobalMuon = FALSE]

Configs == {DefaultCfg, TightCfg,
            [DefaultCfg EXCEPT !.refitGlobalMuon = FALSE],
            [TightCfg EXCEPT !.refitGlobalMuon = TRUE]}

-----------------------------------------------------------------------------
(* isSelected without the global-muon cut on the absorber-end radius.      *)
isSelected_NoGlobalRabs(c, pt, eta, rAtAbsorberEnd, pDCA, chi2_per_ndf, trackType, dcaXY) ==
  IF pt < c.minPt \/ c.maxPt < pt THEN FALSE
  ELSE IF rAtAbsorberEnd < c.minRabs \/ c.maxRabs < rAtAbsorberEnd THEN FALSE
  ELSE IF (IF rAtAbsorberEnd < c.midRabs THEN pDCA > c.maxPDCAforSmallR
                                         ELSE pDCA > c.maxPDCAforLargeR) THEN FALSE
  ELSE IF trackType = GlobalMuonTrack THEN
         IF eta < c.minEtaGL \/ c.maxEtaGL < eta THEN FALSE
         ELSE IF c.maxDCAxy < dcaXY THEN FALSE
         ELSE IF c.maxChi2GL < chi2_per_ndf THEN FALSE
         ELSE TRUE
  ELSE IF trackType = MuonStandaloneTrack THEN
         IF eta < c.minEtaSA \/ c.maxEtaSA < eta THEN FALSE
         ELSE IF c.maxChi2SA < chi2_per_ndf THEN FALSE
         ELSE TRUE
  ELSE FALSE

(* isSelected without the global-muon cut on the chi2 per degree of        *)
(* freedom.                                                                *)
isSelected_NoGlobalChi2(c, pt, eta, rAtAbsorberEnd, pDCA, chi2_per_ndf, trackType, dcaXY) ==
  IF pt < c.minPt \/ c.maxPt < pt THEN FALSE
  ELSE IF rAtAbsorberEnd < c.minRabs \/ c.maxRabs < rAtAbsorberEnd THEN FALSE
  ELSE IF (IF rAtAbsorberEnd < c.midRabs THEN pDCA > c.maxPDCAforSmallR
                                         ELSE pDCA > c.maxPDCAforLargeR) THEN FALSE
  ELSE IF trackType = GlobalMuonTrack THEN
         IF eta < c.minEtaGL \/ c.maxEtaGL < eta THEN FALSE
         ELSE IF c.maxDCAxy < dcaXY THEN FALSE
         ELSE IF rAtAbsorberEnd < c.minRabsGL \/ c.maxRabs < rAtAbsorberEnd THEN FALSE
         ELSE TRUE
  ELSE IF trackType = MuonStandaloneTrack THEN
         IF eta < c.minEtaSA \/ c.maxEtaSA < eta THEN FALSE
         ELSE IF c.maxChi2SA < chi2_per_ndf THEN FALSE
         ELSE TRUE
  ELSE FALSE

(* skimmerPrimaryMuon::isSelected, with its early returns in order.        *)
isSelected(c, pt, eta, rAtAbsorberEnd, pDCA, chi2_per_ndf, trackType, dcaXY) ==
  IF pt < c.minPt \/ c.maxPt < pt THEN FALSE
  ELSE IF rAtAbsorberEnd < c.minRabs \/ c.maxRabs < rAtAbsorberEnd THEN FALSE
  ELSE IF (IF rAtAbsorberEnd < c.midRabs THEN pDCA > c.maxPDCAforSmallR
                                         ELSE pDCA > c.maxPDCAforLargeR) THEN FALSE
  ELSE IF trackType = GlobalMuonTrack THEN
         IF eta < c.minEtaGL \/ c.maxEtaGL < eta THEN FALSE
         ELSE IF c.maxDCAxy < dcaXY THEN FALSE
         ELSE IF c.maxChi2GL < chi2_per_ndf THEN FALSE
         ELSE IF rAtAbsorberEnd < c.minRabsGL \/ c.maxRabs < rAtAbsorberEnd THEN FALSE
         ELSE TRUE
  ELSE IF trackType = MuonStandaloneTrack THEN
         IF eta < c.minEtaSA \/ c.maxEtaSA < eta THEN FALSE
         ELSE IF c.maxChi2SA < chi2_per_ndf THEN FALSE
         ELSE TRUE
  ELSE FALSE

-----------------------------------------------------------------------------
(* Float helpers.                                                          *)
RECURSIVE SqrtAbove(_, _)
SqrtAbove(n, h) == IF h * h > n THEN h ELSE SqrtAbove(n, 2 * h)

RECURSIVE SqrtBetween(_, _, _)
SqrtBetween(n, lo, hi) ==
  IF lo + 1 >= hi THEN lo
  ELSE LET mid == (lo + hi) \div 2
       IN IF mid * mid <= n THEN SqrtBetween(n, mid, hi) ELSE SqrtBetween(n, lo, mid)

\* std::sqrt on a non-negative value (rounded down)
Sqrt(n) == SqrtBetween(n, 0, SqrtAbove(n, 1))

Fabs(x) == IF x < 0 THEN -x ELSE x

\* float division a / b, b # 0 (rounded toward zero)
FDiv(a, b) ==
  LET q == Fabs(a) \div Fabs(b)
  IN IF (a < 0) = (b < 0) THEN q ELSE -q

\* 1000 * std::sin(2.f * std::atan(std::exp(-eta))) = 1000 / cosh(eta), eta in units of 0.1
SinThetaPermille(eta) ==
  CASE eta = -38 -> 45
    [] eta = -30 -> 99
    [] eta = -20 -> 266

-----------------------------------------------------------------------------
(* propagationPoint of Common/Core/fwdtrackUtilities.h, as used here.      *)
kToVertex == "kToVertex"
kToDCA == "kToDCA"
kToRabs == "kToRabs"

NoField == -1   \* no field was ever loaded into the Propagator
BadField == -2  \* a field built from a GRPMagField object that is not there

(* One propagateMuon call of a fillFwdTrackTable call: the track it was    *)
(* made for, its target, and the run whose field was loaded at that time.  *)
Propagated(track, point, field) ==
  [track |-> track.globalIndex, point |-> point, field |-> field]

(* The significance without the guard on the determinant.                 *)
DcaXYinSigma_NoGuard(dcaX, dcaY, cXXatDCA, cYYatDCA, cXYatDCA) ==
  LET det == cXXatDCA * cYYatDCA - cXYatDCA * cXYatDCA
      num == dcaX * dcaX * cYYatDCA + dcaY * dcaY * cXXatDCA - 2 * dcaX * dcaY * cXYatDCA
  IN IF det = 0 THEN [isfinite |-> FALSE, value |-> IF num = 0 THEN "nan" ELSE "inf"]
     ELSE [isfinite |-> TRUE, value |-> Sqrt(Fabs(FDiv(FDiv(num, det), 2)))]

(* Lines 237-243: the DCA significance.  A division by det = 0 gives the   *)
(* float inf (or NaN for 0/0), kept apart from the finite values.          *)
DcaXYinSigma(dcaX, dcaY, cXXatDCA, cYYatDCA, cXYatDCA) ==
  LET det == cXXatDCA * cYYatDCA - cXYatDCA * cXYatDCA
      num == dcaX * dcaX * cYYatDCA + dcaY * dcaY * cXXatDCA - 2 * dcaX * dcaY * cXYatDCA
  IN IF det < 0 THEN [isfinite |-> TRUE, value |-> 999]
     ELSE IF det = 0 THEN [isfinite |-> FALSE, value |-> IF num = 0 THEN "nan" ELSE "inf"]
     ELSE [isfinite |-> TRUE, value |-> Sqrt(Fabs(FDiv(FDiv(num, det), 2)))]

NoSigma == [isfinite |-> FALSE, value |-> "unset"]

(* The row with pDCA made of the track's own momentum and its own DCA.     *)
MuonRow_StoresOwnPDCA(collision, fwdtrack, trackType, pt, eta, dcaX, dcaY, cXXatDCA, cYYatDCA, cXYatDCA, ptMatchedMCHMID, etaMatchedMCHMID, pDCA, rAtAbsorberEnd, isAmbiguous) ==
  [collisionId |-> collision.globalIndex,
   fwdtrackId |-> fwdtrack.globalIndex,
   mfttrackId |-> fwdtrack.matchMFTTrackId,
   mchtrackId |-> fwdtrack.matchMCHTrackId,
   trackType |-> trackType,
   pt |-> pt, eta |-> eta, dcaX |-> dcaX, dcaY |-> dcaY,
   cXXatDCA |-> cXXatDCA, cYYatDCA |-> cYYatDCA, cXYatDCA |-> cXYatDCA,
   ptMatchedMCHMID |-> ptMatchedMCHMID, etaMatchedMCHMID |-> etaMatchedMCHMID,
   pDCA |-> fwdtrack.p * Sqrt(dcaX * dcaX + dcaY * dcaY), rAtAbsorberEnd |-> rAtAbsorberEnd,
   chi2 |-> fwdtrack.chi2,
   chi2MatchMCHMID |-> fwdtrack.chi2MatchMCHMID,
   chi2MatchMCHMFT |-> fwdtrack.chi2MatchMCHMFT,
   isAssociatedToMPC |-> (fwdtrack.collisionId = collision.globalIndex),
   isAmbiguous |-> isAmbiguous]

(* The row with the absorber-end radius copied from the track, not the one *)
(* the selection was made on.                                              *)
MuonRow_StoresTrackRabs(collision, fwdtrack, trackType, pt, eta, dcaX, dcaY, cXXatDCA, cYYatDCA, cXYatDCA, ptMatchedMCHMID, etaMatchedMCHMID, pDCA, rAtAbsorberEnd, isAmbiguous) ==
  [collisionId |-> collision.globalIndex,
   fwdtrackId |-> fwdtrack.globalIndex,
   mfttrackId |-> fwdtrack.matchMFTTrackId,
   mchtrackId |-> fwdtrack.matchMCHTrackId,
   trackType |-> trackType,
   pt |-> pt, eta |-> eta, dcaX |-> dcaX, dcaY |-> dcaY,
   cXXatDCA |-> cXXatDCA, cYYatDCA |-> cYYatDCA, cXYatDCA |-> cXYatDCA,
   ptMatchedMCHMID |-> ptMatchedMCHMID, etaMatchedMCHMID |-> etaMatchedMCHMID,
   pDCA |-> pDCA, rAtAbsorberEnd |-> fwdtrack.rAtAbsorberEnd,
   chi2 |-> fwdtrack.chi2,
   chi2MatchMCHMID |-> fwdtrack.chi2MatchMCHMID,
   chi2MatchMCHMFT |-> fwdtrack.chi2MatchMCHMFT,
   isAssociatedToMPC |-> (fwdtrack.collisionId = collision.globalIndex),
   isAmbiguous |-> isAmbiguous]

(* The row of EMPrimaryMuons written at lines 328-332.  phi, sign, the     *)
(* cluster maps and the other columns copied from the track unchanged are  *)
(* left out.                                                               *)
MuonRow(collision, fwdtrack, trackType, pt, eta, dcaX, dcaY, cXXatDCA, cYYatDCA, cXYatDCA, ptMatchedMCHMID, etaMatchedMCHMID, pDCA, rAtAbsorberEnd, isAmbiguous) ==
  [collisionId |-> collision.globalIndex,
   fwdtrackId |-> fwdtrack.globalIndex,
   mfttrackId |-> fwdtrack.matchMFTTrackId,
   mchtrackId |-> fwdtrack.matchMCHTrackId,
   trackType |-> trackType,
   pt |-> pt, eta |-> eta, dcaX |-> dcaX, dcaY |-> dcaY,
   cXXatDCA |-> cXXatDCA, cYYatDCA |-> cYYatDCA, cXYatDCA |-> cXYatDCA,
   ptMatchedMCHMID |-> ptMatchedMCHMID, etaMatchedMCHMID |-> etaMatchedMCHMID,
   pDCA |-> pDCA, rAtAbsorberEnd |-> rAtAbsorberEnd,
   chi2 |-> fwdtrack.chi2,
   chi2MatchMCHMID |-> fwdtrack.chi2MatchMCHMID,
   chi2MatchMCHMFT |-> fwdtrack.chi2MatchMCHMFT,
   isAssociatedToMPC |-> (fwdtrack.collisionId = collision.globalIndex),
   isAmbiguous |-> isAmbiguous]

(* The row of EMPrimaryMuonsCov written at lines 334-340: the covariance   *)
(* of the track at the vertex.  `of` is not a column: it records the call  *)
(* that wrote the row.                                                     *)
CovRow(collision, fwdtrack, propmuonAtPV) ==
  [cov |-> propmuonAtPV.cov,
   of |-> [collisionId |-> collision.globalIndex, fwdtrackId |-> fwdtrack.globalIndex]]

Returned(at, propagated, sigma) ==
  [emitted |-> FALSE, at |-> at, propagated |-> propagated, dcaXYinSigma |-> sigma]

(* The early returns with the cut on the MCH-MFT matching chi2 left to a   *)
(* later stage.                                                            *)
ReturnsBeforePropagation_NoMatchCut(c, fwdtrack) ==
  IF fwdtrack.chi2MatchMCHMID < 0 THEN "chi2MatchMCHMID"
  ELSE IF fwdtrack.chi2 < 0 THEN "chi2"
  ELSE "no"

(* The early returns without the protection against a negative chi2.      *)
ReturnsBeforePropagation_NoChi2Cut(c, fwdtrack) ==
  IF fwdtrack.trackType = GlobalMuonTrack /\ fwdtrack.chi2MatchMCHMFT > c.maxMatchingChi2MCHMFT
    THEN "chi2MatchMCHMFT"
  ELSE IF fwdtrack.chi2MatchMCHMID < 0 THEN "chi2MatchMCHMID"
  ELSE "no"

(* Lines 209-219: the returns of fillFwdTrackTable that precede its first  *)
(* propagateMuon call; "no" when none is taken.                            *)
ReturnsBeforePropagation(c, fwdtrack) ==
  IF fwdtrack.trackType = GlobalMuonTrack /\ fwdtrack.chi2MatchMCHMFT > c.maxMatchingChi2MCHMFT
    THEN "chi2MatchMCHMFT"
  ELSE IF fwdtrack.chi2MatchMCHMID < 0 THEN "chi2MatchMCHMID"
  ELSE IF fwdtrack.chi2 < 0 THEN "chi2"
  ELSE "no"

(* skimmerPrimaryMuon::fillFwdTrackTable as a function of its arguments    *)
(* and of what propagateMuon returns (prop): what it emits, where it       *)
(* returns, and the propagateMuon calls it makes, in order.  mchtrack and  *)
(* mfttrack are the rows matchMCHTrack_as / matchMFTTrack_as give; field   *)
(* is the run whose field is loaded while the call runs.                   *)
(* The getters of lines 271-272 looking at the MCH-MID index only.         *)
AccessingInvalidIndex_MCHOnly(fwdtrack) == fwdtrack.matchMCHTrackId < 0

(* Lines 271-272: matchMCHTrack_as and matchMFTTrack_as are called with no *)
(* has_matchMCHTrack() or has_matchMFTTrack() test before them.  The       *)
(* getters of an index column are the framework's: on an index below zero  *)
(* they raise accessingInvalidIndexFor, a runtime error that no code of    *)
(* the task catches.                                                       *)
AccessingInvalidIndex(fwdtrack) ==
  fwdtrack.matchMCHTrackId < 0 \/ fwdtrack.matchMFTTrackId < 0

FillOutcome(c, collision, fwdtrack, mchtrack, mfttrack, isAmbiguous, prop, field) ==
  IF ReturnsBeforePropagation(c, fwdtrack) # "no"
    THEN Returned(ReturnsBeforePropagation(c, fwdtrack), <<>>, NoSigma)
  ELSE
    LET propmuonAtPV == prop.atPV
        propmuonAtDCA == prop.atDCA
        calls2 == <<Propagated(fwdtrack, kToVertex, field), Propagated(fwdtrack, kToDCA, field)>>
        cXXatDCA == propmuonAtDCA.sigma2X
        cYYatDCA == propmuonAtDCA.sigma2Y
        cXYatDCA == propmuonAtDCA.sigmaXY
        dcaX == propmuonAtDCA.x - collision.posX
        dcaY == propmuonAtDCA.y - collision.posY
        dcaXY == Sqrt(dcaX * dcaX + dcaY * dcaY)
        dcaXYinSigma == DcaXYinSigma(dcaX, dcaY, cXXatDCA, cYYatDCA, cXYatDCA)
    IN
    IF fwdtrack.trackType = GlobalMuonTrack THEN
      IF fwdtrack.rAtAbsorberEnd < c.minRabsGL \/ c.maxRabs < fwdtrack.rAtAbsorberEnd
        THEN Returned("rAtAbsorberEnd", calls2, dcaXYinSigma)
      ELSE IF c.maxDCAxy < dcaXY THEN Returned("dcaXY", calls2, dcaXYinSigma)
      ELSE IF AccessingInvalidIndex(fwdtrack)
        THEN Returned("accessingInvalidIndexFor", calls2, dcaXYinSigma)
      ELSE
        LET nClustersMFT == mfttrack.nClusters
            ndf_mchmft == 2 * (mchtrack.nClusters + nClustersMFT) - 5
        IN
        IF c.maxChi2GL < FDiv(fwdtrack.chi2, ndf_mchmft)
          THEN Returned("chi2/ndf", calls2, dcaXYinSigma)
        ELSE
          LET propmuonAtPV_Matched == prop.atPV_Matched
              propmuonAtDCA_Matched == prop.atDCA_Matched
              calls4 == calls2 \o <<Propagated(mchtrack, kToVertex, field),
                                    Propagated(mchtrack, kToDCA, field)>>
              dcaX_Matched == propmuonAtDCA_Matched.x - collision.posX
              dcaY_Matched == propmuonAtDCA_Matched.y - collision.posY
              dcaXY_Matched == Sqrt(dcaX_Matched * dcaX_Matched + dcaY_Matched * dcaY_Matched)
              pDCA == mchtrack.p * dcaXY_Matched
              eta == IF c.refitGlobalMuon THEN mfttrack.eta ELSE propmuonAtPV.eta
              pt == IF c.refitGlobalMuon
                      THEN (propmuonAtPV_Matched.p * SinThetaPermille(mfttrack.eta)) \div 100
                      ELSE propmuonAtPV.pt
          IN
          IF ~isSelected(c, pt, eta, fwdtrack.rAtAbsorberEnd, pDCA,
                         FDiv(fwdtrack.chi2, ndf_mchmft), fwdtrack.trackType, dcaXY)
            THEN Returned("isSelected", calls4, dcaXYinSigma)
          ELSE
            [emitted |-> TRUE, at |-> "end", propagated |-> calls4,
             dcaXYinSigma |-> dcaXYinSigma,
             muon |-> MuonRow(collision, fwdtrack, fwdtrack.trackType, pt, eta, dcaX, dcaY,
                              cXXatDCA, cYYatDCA, cXYatDCA,
                              propmuonAtPV_Matched.pt, propmuonAtPV_Matched.eta,
                              pDCA, fwdtrack.rAtAbsorberEnd, isAmbiguous),
             cov |-> CovRow(collision, fwdtrack, propmuonAtPV)]
    ELSE IF fwdtrack.trackType = MuonStandaloneTrack THEN
      LET propmuonAtRabs == prop.atRabs
          calls3 == Append(calls2, Propagated(fwdtrack, kToRabs, field))
          xAbs == propmuonAtRabs.x
          yAbs == propmuonAtRabs.y
          rAtAbsorberEnd == Sqrt(xAbs * xAbs + yAbs * yAbs)
          pDCA == fwdtrack.p * dcaXY
          ndf_mchmft == 1
      IN
      IF ~isSelected(c, propmuonAtPV.pt, propmuonAtPV.eta, rAtAbsorberEnd, pDCA,
                     FDiv(fwdtrack.chi2, ndf_mchmft), fwdtrack.trackType, dcaXY)
        THEN Returned("isSelected", calls3, dcaXYinSigma)
      ELSE
        [emitted |-> TRUE, at |-> "end", propagated |-> calls3,
         dcaXYinSigma |-> dcaXYinSigma,
         muon |-> MuonRow(collision, fwdtrack, fwdtrack.trackType, propmuonAtPV.pt,
                          propmuonAtPV.eta, dcaX, dcaY, cXXatDCA, cYYatDCA, cXYatDCA,
                          propmuonAtPV.pt, propmuonAtPV.eta,
                          pDCA, rAtAbsorberEnd, isAmbiguous),
         cov |-> CovRow(collision, fwdtrack, propmuonAtPV)]
    ELSE Returned("trackType", calls2, dcaXYinSigma)

-----------------------------------------------------------------------------
(* Input domains.                                                          *)
NCollisions == 2
NTracks == 2
MaxAssoc == NTracks + 1

CollisionIds == 0 .. NCollisions - 1
TrackIds == 0 .. NTracks - 1
MftIds == {0, 1}
RunNumbers == {0, 1}

(* What propagateMuon returns for the five calls a fillFwdTrackTable call  *)
(* can make, as one flat record with the arguments of the call.            *)
(* prop_ok says whether the extrapolations inside propagateMuon worked:    *)
(* propagateMuon returns a GlobalFwdTrack and nothing else, so the caller   *)
(* cannot see it.                                                          *)
BaseArgs ==
  [trackType |-> GlobalMuonTrack, chi2MatchMCHMFT |-> 40, chi2MatchMCHMID |-> 5,
   chi2 |-> 50, rAtAbsorberEnd |-> 300, p |-> 10, nClusters |-> 10,
   mch_nClusters |-> 10, mch_p |-> 10, mft_nClusters |-> 5, mft_eta |-> -30,
   posX |-> 0, posY |-> 0, isAmbiguous |-> FALSE,
   pv_pt |-> 3, pv_eta |-> -30, pv_p |-> 10, pv_cov |-> 1,
   dca_x |-> 3, dca_y |-> 4, sigma2X |-> 1, sigma2Y |-> 1, sigmaXY |-> 0,
   pvm_pt |-> 3, pvm_eta |-> -30, pvm_p |-> 30,
   dcam_x |-> 3, dcam_y |-> 4,
   rabs_x |-> 180, rabs_y |-> 240, prop_ok |-> TRUE,
   matchMCHTrackId |-> 0, matchMFTTrackId |-> 0]

(* Changes of one quantity of BaseArgs: each puts it on the other side of  *)
(* a cut, on a cut's boundary, or into another branch.                     *)
NoPatch == [x \in {} |-> 0]
TrackPatches ==
  {[trackType |-> MuonStandaloneTrack], [trackType |-> GlobalForwardTrack],
   [trackType |-> MCHStandaloneTrack], [trackType |-> GlobalMuonTrackOtherMatch],
   [chi2MatchMCHMFT |-> 60], [chi2MatchMCHMFT |-> 50], [chi2MatchMCHMID |-> -1],
   [chi2 |-> -1], [chi2 |-> 150], [chi2 |-> 4],
   [rAtAbsorberEnd |-> 250], [rAtAbsorberEnd |-> 900], [rAtAbsorberEnd |-> 276],
   [p |-> 100], [mch_p |-> 100], [mch_nClusters |-> 1, mft_nClusters |-> 1],
   [mft_eta |-> -38], [mft_eta |-> -20],
   [posX |-> 3, posY |-> 4], [isAmbiguous |-> TRUE],
   [matchMCHTrackId |-> -1], [matchMFTTrackId |-> -1]}
PropPatches ==
  {[pv_pt |-> 1], [pv_pt |-> 2], [pv_pt |-> 40], [pv_eta |-> -38], [pv_eta |-> -20],
   [pv_cov |-> 2],
   [dca_x |-> 6, dca_y |-> 8], [sigmaXY |-> 2], [sigmaXY |-> 1],
   [pvm_p |-> 400], [dcam_x |-> 30, dcam_y |-> 40],
   [rabs_x |-> 150, rabs_y |-> 200], [rabs_x |-> 60, rabs_y |-> 80],
   [rabs_x |-> 540, rabs_y |-> 720], [prop_ok |-> FALSE]}

(* No row: what stands for the matched track of an invalid index.          *)
NoTrack == [globalIndex |-> -1, nClusters |-> 0, p |-> 0, eta |-> 0]

Patch(a, d) == [f \in DOMAIN a |-> IF f \in DOMAIN d THEN d[f] ELSE a[f]]

ArgCollision(a) ==
  [globalIndex |-> 0, runNumber |-> 1, posX |-> a.posX, posY |-> a.posY,
   isSelected |-> TRUE, swtaliastmp_raw |-> 1, has_mcCollision |-> TRUE]
ArgFwdTrack(a) ==
  [globalIndex |-> 1, trackType |-> a.trackType, chi2MatchMCHMFT |-> a.chi2MatchMCHMFT,
   chi2MatchMCHMID |-> a.chi2MatchMCHMID, chi2 |-> a.chi2,
   rAtAbsorberEnd |-> a.rAtAbsorberEnd, p |-> a.p, nClusters |-> a.nClusters,
   collisionId |-> 0, matchMFTTrackId |-> a.matchMFTTrackId,
   matchMCHTrackId |-> a.matchMCHTrackId, has_mcParticle |-> TRUE]
ArgMCHTrack(a) ==
  IF a.matchMCHTrackId < 0 THEN NoTrack
  ELSE [ArgFwdTrack(BaseArgs) EXCEPT !.globalIndex = 0, !.trackType = MuonStandaloneTrack,
                                     !.nClusters = a.mch_nClusters, !.p = a.mch_p,
                                     !.matchMFTTrackId = -1, !.matchMCHTrackId = -1]
ArgMFTTrack(a) ==
  IF a.matchMFTTrackId < 0 THEN NoTrack
  ELSE [globalIndex |-> 0, nClusters |-> a.mft_nClusters, eta |-> a.mft_eta]
ArgProp(a) ==
  [atPV |-> [pt |-> a.pv_pt, eta |-> a.pv_eta, p |-> a.pv_p, cov |-> a.pv_cov],
   atDCA |-> [x |-> a.dca_x, y |-> a.dca_y, sigma2X |-> a.sigma2X,
              sigma2Y |-> a.sigma2Y, sigmaXY |-> a.sigmaXY],
   atPV_Matched |-> [pt |-> a.pvm_pt, eta |-> a.pvm_eta, p |-> a.pvm_p],
   atDCA_Matched |-> [x |-> a.dcam_x, y |-> a.dcam_y],
   atRabs |-> [x |-> a.rabs_x, y |-> a.rabs_y],
   ok |-> a.prop_ok]

-----------------------------------------------------------------------------
(* fillFwdTrackTable with the covariance row written as soon as the track  *)
(* is propagated to the vertex, before the selection.                      *)
fillFwdTrackTable_CovBeforeSelection(collision, fwdtrack, mchtrack, mfttrack, isAmbiguous, prop) ==
  LET out == FillOutcome(cfg, collision, fwdtrack, mchtrack, mfttrack, isAmbiguous, prop,
                         fieldRun)
  IN /\ emprimarymuons' = IF out.emitted THEN Append(emprimarymuons, out.muon)
                                         ELSE emprimarymuons
     /\ emprimarymuonscov' = IF out.propagated # <<>>
                               THEN Append(emprimarymuonscov,
                                           CovRow(collision, fwdtrack, prop.atPV))
                               ELSE emprimarymuonscov
     /\ call' = [collisionId |-> collision.globalIndex, runNumber |-> collision.runNumber,
                 fwdtrackId |-> fwdtrack.globalIndex, trackType |-> fwdtrack.trackType,
                 chi2MatchMCHMFT |-> fwdtrack.chi2MatchMCHMFT,
                 det |-> prop.atDCA.sigma2X * prop.atDCA.sigma2Y
                           - prop.atDCA.sigmaXY * prop.atDCA.sigmaXY,
                 emitted |-> out.emitted, at |-> out.at, propagated |-> out.propagated,
                 dcaXYinSigma |-> out.dcaXYinSigma, propagationOk |-> prop.ok]

-----------------------------------------------------------------------------
(* fillFwdTrackTable as a step of the task: the two cursors are filled     *)
(* together at lines 328-340 or not at all.                                *)
(* fillFwdTrackTable writing its rows at the head of the tables.           *)
fillFwdTrackTable_InsertsFirst(collision, fwdtrack, mchtrack, mfttrack, isAmbiguous, prop) ==
  LET out == FillOutcome(cfg, collision, fwdtrack, mchtrack, mfttrack, isAmbiguous, prop,
                         fieldRun)
  IN /\ emprimarymuons' = IF out.emitted THEN <<out.muon>> \o emprimarymuons
                                         ELSE emprimarymuons
     /\ emprimarymuonscov' = IF out.emitted THEN <<out.cov>> \o emprimarymuonscov
                                            ELSE emprimarymuonscov
     /\ call' = [collisionId |-> collision.globalIndex, runNumber |-> collision.runNumber,
                 fwdtrackId |-> fwdtrack.globalIndex, trackType |-> fwdtrack.trackType,
                 chi2MatchMCHMFT |-> fwdtrack.chi2MatchMCHMFT,
                 det |-> prop.atDCA.sigma2X * prop.atDCA.sigma2Y
                           - prop.atDCA.sigmaXY * prop.atDCA.sigmaXY,
                 emitted |-> out.emitted, at |-> out.at, propagated |-> out.propagated,
                 dcaXYinSigma |-> out.dcaXYinSigma, propagationOk |-> prop.ok]

fillFwdTrackTable(collision, fwdtrack, mchtrack, mfttrack, isAmbiguous, prop) ==
  LET out == FillOutcome(cfg, collision, fwdtrack, mchtrack, mfttrack, isAmbiguous, prop,
                         fieldRun)
  IN /\ emprimarymuons' = IF out.emitted THEN Append(emprimarymuons, out.muon)
                                         ELSE emprimarymuons
     /\ emprimarymuonscov' = IF out.emitted THEN Append(emprimarymuonscov, out.cov)
                                            ELSE emprimarymuonscov
     /\ call' = [collisionId |-> collision.globalIndex, runNumber |-> collision.runNumber,
                 fwdtrackId |-> fwdtrack.globalIndex, trackType |-> fwdtrack.trackType,
                 chi2MatchMCHMFT |-> fwdtrack.chi2MatchMCHMFT,
                 det |-> prop.atDCA.sigma2X * prop.atDCA.sigma2Y
                           - prop.atDCA.sigmaXY * prop.atDCA.sigmaXY,
                 emitted |-> out.emitted, at |-> out.at, propagated |-> out.propagated,
                 dcaXYinSigma |-> out.dcaXYinSigma, propagationOk |-> prop.ok]

NoCall == [at |-> "none", emitted |-> FALSE, propagated |-> <<>>, dcaXYinSigma |-> NoSigma]
NoCollision == [globalIndex |-> -1]

(* The state after skimmerPrimaryMuon::init and before any input is read.  *)
InitTask ==
  /\ mRunNumber = 0
  /\ fieldRun = NoField
  /\ geometryLoaded = FALSE
  /\ lookups = <<>>
  /\ emprimarymuons = <<>>
  /\ emprimarymuonscov = <<>>
  /\ em_amb_muon_ids = <<>>
  /\ em_same_mft_ids = <<>>
  /\ resolved = {}
  /\ mapAmb = <<>>
  /\ todo = <<>>
  /\ currentCollision = NoCollision
  /\ nextCollision = 0
  /\ call = NoCall

NoInput ==
  /\ fwdtracks = <<>>
  /\ mfttracks = <<>>
  /\ fwdtrackIndices = <<>>

NoSelCall ==
  /\ selArgs = <<>>
  /\ selResult = "none"

-----------------------------------------------------------------------------
(* SpecFill: one fillFwdTrackTable call on any arguments, with the field   *)
(* of the collision's run loaded.                                          *)
FillInputs ==
  {Patch(Patch(BaseArgs, d1), d2) :
     d1 \in TrackPatches \cup {NoPatch},
     d2 \in TrackPatches \cup PropPatches \cup {NoPatch}}

InitFill ==
  /\ cfg \in Configs
  /\ fillArgs \in FillInputs
  /\ process = "fillFwdTrackTable"
  /\ pc = "call"
  /\ mRunNumber = 1 /\ fieldRun = 1 /\ geometryLoaded = TRUE /\ lookups = <<1>>
  /\ emprimarymuons = <<>> /\ emprimarymuonscov = <<>>
  /\ em_amb_muon_ids = <<>> /\ em_same_mft_ids = <<>> /\ resolved = {}
  /\ mapAmb = <<>> /\ todo = <<>> /\ currentCollision = NoCollision /\ nextCollision = 0
  /\ call = NoCall
  /\ NoInput
  /\ NoSelCall

CallFill ==
  /\ process = "fillFwdTrackTable"
  /\ pc = "call"
  /\ fillFwdTrackTable(ArgCollision(fillArgs), ArgFwdTrack(fillArgs), ArgMCHTrack(fillArgs),
                       ArgMFTTrack(fillArgs), fillArgs.isAmbiguous, ArgProp(fillArgs))
  /\ pc' = IF call'.at = "accessingInvalidIndexFor" THEN "aborted" ELSE "returned"
  /\ UNCHANGED <<cfg, process, mRunNumber, fieldRun, geometryLoaded, lookups, currentCollision,
                 nextCollision, fwdtracks, fwdtrackIndices, mapAmb, todo, em_amb_muon_ids, em_same_mft_ids,
                 mfttracks, fillArgs, resolved, selArgs, selResult>>

NextFill == CallFill

SpecFill == InitFill /\ [][NextFill]_vars

-----------------------------------------------------------------------------
(* SpecSel: one isSelected call on any arguments.                          *)
SelInputs ==
  [pt : {1, 2, 3, 30, 31}, eta : {-41, -40, -38, -36, -25, -24},
   rAtAbsorberEnd : {175, 176, 264, 265, 275, 276, 895, 896},
   pDCA : {324, 325, 594, 595}, chi2_per_ndf : {4, 5, 61},
   trackType : TrackTypes, dcaXY : {5, 6}]

InitSel ==
  /\ cfg \in {DefaultCfg, TightCfg}
  /\ selArgs \in SelInputs
  /\ selResult = "none"
  /\ process = "isSelected"
  /\ pc = "call"
  /\ InitTask
  /\ NoInput
  /\ fillArgs = <<>>

CallSel ==
  /\ process = "isSelected"
  /\ pc = "call"
  /\ selResult' = isSelected(cfg, selArgs.pt, selArgs.eta, selArgs.rAtAbsorberEnd,
                             selArgs.pDCA, selArgs.chi2_per_ndf, selArgs.trackType,
                             selArgs.dcaXY)
  /\ pc' = "returned"
  /\ UNCHANGED <<cfg, process, mRunNumber, fieldRun, geometryLoaded, lookups, currentCollision,
                 nextCollision, fwdtracks, fwdtrackIndices, mapAmb, todo, emprimarymuons, emprimarymuonscov,
                 em_amb_muon_ids, em_same_mft_ids, mfttracks, fillArgs, call, resolved,
                 selArgs>>

NextSel == CallSel

SpecSel == InitSel /\ [][NextSel]_vars

-----------------------------------------------------------------------------
(* Input tables of a process function.                                     *)
SAProcesses == {"processRec_SA", "processRec_SA_SWT", "processMC_SA"}
TTCAProcesses == {"processRec_TTCA", "processRec_TTCA_SWT", "processMC_TTCA"}
SWTProcesses == {"processRec_SA_SWT", "processRec_TTCA_SWT"}
MCProcesses == {"processMC_SA", "processMC_TTCA"}
Processes == SAProcesses \cup TTCAProcesses

(* aod::MFTTracks: track 0 lies inside the global-muon eta acceptance,     *)
(* track 1 outside of it.                                                  *)
MFTTable ==
  [i \in MftIds |-> [globalIndex |-> i, nClusters |-> 5,
                     eta |-> IF i = 0 THEN -30 ELSE -38]]

(* A row of MyFwdTracks: an MCH-MID track, a global muon matched to the    *)
(* MCH-MID track mch and to an MFT track, or a track of another type.      *)
TrackKinds == {"MCHMID", "MFTMCHMID0", "MFTMCHMID1", "MFTMCH"}

FwdTrackRow(i, kind, collisionId, mch, has_mcParticle) ==
  [globalIndex |-> i,
   trackType |-> CASE kind = "MCHMID" -> MuonStandaloneTrack
                   [] kind = "MFTMCH" -> GlobalForwardTrack
                   [] OTHER -> GlobalMuonTrack,
   chi2MatchMCHMFT |-> IF kind = "MCHMID" THEN -1 ELSE BaseArgs.chi2MatchMCHMFT,
   chi2MatchMCHMID |-> IF kind = "MFTMCH" THEN -1 ELSE BaseArgs.chi2MatchMCHMID,
   chi2 |-> BaseArgs.chi2, rAtAbsorberEnd |-> BaseArgs.rAtAbsorberEnd,
   p |-> BaseArgs.p, nClusters |-> BaseArgs.nClusters,
   collisionId |-> collisionId,
   matchMFTTrackId |-> CASE kind = "MCHMID" -> -1
                         [] kind = "MFTMCHMID1" -> 1
                         [] OTHER -> 0,
   matchMCHTrackId |-> IF kind = "MCHMID" THEN -1 ELSE mch,
   has_mcParticle |-> has_mcParticle]

IsSortedBy(seq, col) ==
  \A i, j \in DOMAIN seq : i < j => seq[i][col] <= seq[j][col]

(* MyFwdTracks tables: grouped by collisionId (Preslice perCollision), and *)
(* every matched track has an MCH-MID row to point at.                     *)
FwdTrackTables(proc) ==
  {[i \in TrackIds |->
      FwdTrackRow(i, kinds[i], colls[i],
                  IF \E j \in TrackIds : kinds[j] = "MCHMID"
                    THEN CHOOSE j \in TrackIds :
                           kinds[j] = "MCHMID" /\ \A k \in TrackIds : kinds[k] = "MCHMID" => j <= k
                    ELSE -1,
                  mcs[i])] :
     kinds \in {k \in [TrackIds -> TrackKinds] :
                  (\E i \in TrackIds : k[i] # "MCHMID") =>
                     (\E j \in TrackIds : k[j] = "MCHMID")},
     colls \in {c \in [TrackIds -> CollisionIds] :
                  /\ \A i, j \in TrackIds : i < j => c[i] <= c[j]
                  /\ proc \in TTCAProcesses => \A i \in TrackIds : c[i] = 0},
     mcs \in {h \in [TrackIds -> BOOLEAN] :
                  proc \notin MCProcesses => \A i \in TrackIds : h[i]}}

(* aod::FwdTrackAssoc tables: grouped by collisionId (Preslice             *)
(* fwdtrackIndicesPerCollision); a pair may occur more than once.          *)
AssocRows == [collisionId : CollisionIds, fwdtrackId : TrackIds]
AssocTables ==
  UNION {{a \in [1 .. n -> AssocRows] : IsSortedBy(a, "collisionId")} : n \in 0 .. MaxAssoc}

(* The collisions a process function can meet as its next row.             *)
CollisionRows(proc, i) ==
  {[globalIndex |-> i, runNumber |-> r, posX |-> 0, posY |-> 0, isSelected |-> sel,
    swtaliastmp_raw |-> swt, has_mcCollision |-> mc] :
     r \in RunNumbers, sel \in BOOLEAN,
     swt \in IF proc \in SWTProcesses THEN {0, 1} ELSE {1},
     mc \in IF proc \in MCProcesses THEN BOOLEAN ELSE {TRUE}}

(* What propagateMuon can return to a call made by a process function.     *)
ProcessProps ==
  {ArgProp(Patch(BaseArgs, d)) :
     d \in {NoPatch, [pv_pt |-> 1]}}

-----------------------------------------------------------------------------
(* What the CCDB gives to one lookup of initCCDB (lines 119-125):          *)
(*  "ok"               every object is there;                              *)
(*  "abort"            the task dies inside the lookup: getRunDuration     *)
(*                     finds no run metadata and raises a fatal error, or  *)
(*                     initFieldFromGRP crashes on a null GRPMagField;     *)
(*  "null GRPMagField" retrieveFromTFileAny returns a null pointer that    *)
(*                     line 123 passes on unchecked, and the read through  *)
(*                     it does not crash;                                   *)
(*  "null TGeoManager" ccdb->get returns a null pointer, which is not      *)
(*                     fatal (setFatalWhenNull(false), line 103) and is    *)
(*                     not looked at (line 125).                           *)
CcdbResults == {"ok", "abort", "null GRPMagField", "null TGeoManager"}

(* skimmerPrimaryMuon::initCCDB for a bunch crossing of run runNumber,     *)
(* ccdb being what the CCDB gives if it is asked.                          *)
initCCDB(runNumber, ccdb) ==
  IF mRunNumber = runNumber
    THEN UNCHANGED <<mRunNumber, fieldRun, geometryLoaded, lookups>>
    ELSE /\ mRunNumber' = runNumber
         /\ lookups' = Append(lookups, runNumber)
         /\ fieldRun' = CASE ccdb = "abort" -> fieldRun
                          [] ccdb = "null GRPMagField" -> BadField
                          [] OTHER -> runNumber
         /\ geometryLoaded' = CASE ccdb = "abort" -> geometryLoaded
                                [] ccdb = "null TGeoManager" -> geometryLoaded
                                [] OTHER -> TRUE

(* The task does not come back from the initCCDB call.                     *)
InitCCDBAborts(runNumber, ccdb) == mRunNumber # runNumber /\ ccdb = "abort"

(* The rows matchMCHTrack_as and matchMFTTrack_as give.                    *)
MatchMCHTrack(fwdtrack) ==
  IF fwdtrack.matchMCHTrackId \in DOMAIN fwdtracks
    THEN fwdtracks[fwdtrack.matchMCHTrackId] ELSE NoTrack
MatchMFTTrack(fwdtrack) ==
  IF fwdtrack.matchMFTTrackId \in DOMAIN mfttracks
    THEN mfttracks[fwdtrack.matchMFTTrackId] ELSE NoTrack

(* sliceBy(perCollision, collision.globalIndex()): the tracks of the       *)
(* collision, in table order, as their global indices.                     *)
RECURSIVE TracksOfCollision(_, _)
TracksOfCollision(collisionId, from) ==
  IF from \notin DOMAIN fwdtracks THEN <<>>
  ELSE (IF fwdtracks[from].collisionId = collisionId THEN <<from>> ELSE <<>>)
         \o TracksOfCollision(collisionId, from + 1)

(* sliceBy(fwdtrackIndicesPerCollision, collision.globalIndex()): the      *)
(* association rows of the collision, in table order, as the global        *)
(* indices of their tracks.                                                *)
RECURSIVE AssocOfCollision(_, _)
AssocOfCollision(collisionId, from) ==
  IF from \notin DOMAIN fwdtrackIndices THEN <<>>
  ELSE (IF fwdtrackIndices[from].collisionId = collisionId
          THEN <<fwdtrackIndices[from].fwdtrackId>> ELSE <<>>)
         \o AssocOfCollision(collisionId, from + 1)

(* The first loop taking a track of one association row as ambiguous.      *)
BuildMapAmb_OneRowIsEnough ==
  /\ pc = "mapAmb"
  /\ mapAmb' = [t \in DOMAIN fwdtracks |->
                  Cardinality({k \in DOMAIN fwdtrackIndices :
                                 fwdtrackIndices[k].fwdtrackId = t}) > 0]
  /\ pc' = "collisions"
  /\ UNCHANGED <<cfg, process, mRunNumber, fieldRun, geometryLoaded, lookups, currentCollision,
                 nextCollision, fwdtracks, fwdtrackIndices, todo, emprimarymuons, emprimarymuonscov,
                 em_amb_muon_ids, em_same_mft_ids, mfttracks, fillArgs, call, resolved,
                 selArgs, selResult>>

(* The first loop taking a track as ambiguous from three association rows. *)
BuildMapAmb_MoreThanTwo ==
  /\ pc = "mapAmb"
  /\ mapAmb' = [t \in DOMAIN fwdtracks |->
                  Cardinality({k \in DOMAIN fwdtrackIndices :
                                 fwdtrackIndices[k].fwdtrackId = t}) > 2]
  /\ pc' = "collisions"
  /\ UNCHANGED <<cfg, process, mRunNumber, fieldRun, geometryLoaded, lookups, currentCollision,
                 nextCollision, fwdtracks, fwdtrackIndices, todo, emprimarymuons, emprimarymuonscov,
                 em_amb_muon_ids, em_same_mft_ids, mfttracks, fillArgs, call, resolved,
                 selArgs, selResult>>

(* Lines 431-436: the first loop of the TTCA process functions.            *)
BuildMapAmb ==
  /\ pc = "mapAmb"
  /\ mapAmb' = [t \in DOMAIN fwdtracks |->
                  Cardinality({k \in DOMAIN fwdtrackIndices :
                                 fwdtrackIndices[k].fwdtrackId = t}) > 1]
  /\ pc' = "collisions"
  /\ UNCHANGED <<cfg, process, mRunNumber, fieldRun, geometryLoaded, lookups, currentCollision,
                 nextCollision, fwdtracks, fwdtrackIndices, todo, emprimarymuons, emprimarymuonscov,
                 em_amb_muon_ids, em_same_mft_ids, mfttracks, fillArgs, call, resolved,
                 selArgs, selResult>>

(* The collision loop of the SWT process functions without the test of the *)
(* trigger bits.                                                           *)
CollisionLoop_NoTriggerGate(swt, mc, ttca) ==
  /\ pc = "collisions"
  /\ todo = <<>>
  /\ nextCollision < NCollisions
  /\ \E row \in CollisionRows(process, nextCollision), ccdb \in CcdbResults :
       /\ currentCollision' = row
       /\ initCCDB(row.runNumber, ccdb)
       /\ pc' = IF InitCCDBAborts(row.runNumber, ccdb) THEN "aborted" ELSE pc
       /\ todo' = IF InitCCDBAborts(row.runNumber, ccdb) THEN <<>>
                  ELSE IF ~row.isSelected THEN <<>>
                  ELSE IF mc /\ ~row.has_mcCollision THEN <<>>
                  ELSE IF ttca THEN AssocOfCollision(row.globalIndex, 1)
                  ELSE TracksOfCollision(row.globalIndex, 0)
  /\ nextCollision' = nextCollision + 1
  /\ call' = NoCall
  /\ UNCHANGED <<cfg, process, fwdtracks, fwdtrackIndices, mapAmb, emprimarymuons,
                 emprimarymuonscov, em_amb_muon_ids, em_same_mft_ids, mfttracks, fillArgs,
                 resolved, selArgs, selResult>>

(* One iteration of the collision loop up to the track loop: initCCDB,     *)
(* then the gates on the collision, then the slice.  swt, mc and ttca say  *)
(* which of the gates and which slice the process function has.            *)
CollisionLoop(swt, mc, ttca) ==
  /\ pc = "collisions"
  /\ todo = <<>>
  /\ nextCollision < NCollisions
  /\ \E row \in CollisionRows(process, nextCollision), ccdb \in CcdbResults :
       /\ currentCollision' = row
       /\ initCCDB(row.runNumber, ccdb)
       /\ pc' = IF InitCCDBAborts(row.runNumber, ccdb) THEN "aborted" ELSE pc
       /\ todo' = IF InitCCDBAborts(row.runNumber, ccdb) THEN <<>>
                  ELSE IF ~row.isSelected THEN <<>>
                  ELSE IF swt /\ row.swtaliastmp_raw = 0 THEN <<>>
                  ELSE IF mc /\ ~row.has_mcCollision THEN <<>>
                  ELSE IF ttca THEN AssocOfCollision(row.globalIndex, 1)
                  ELSE TracksOfCollision(row.globalIndex, 0)
  /\ nextCollision' = nextCollision + 1
  /\ call' = NoCall
  /\ UNCHANGED <<cfg, process, fwdtracks, fwdtrackIndices, mapAmb, emprimarymuons,
                 emprimarymuonscov, em_amb_muon_ids, em_same_mft_ids, mfttracks, fillArgs,
                 resolved, selArgs, selResult>>

(* One iteration of the track loop of the current collision.               *)
TrackLoop(mc, ttca) ==
  /\ pc = "collisions"
  /\ todo # <<>>
  /\ LET fwdtrack == fwdtracks[Head(todo)]
     IN IF mc /\ ~fwdtrack.has_mcParticle
          THEN call' = NoCall /\ UNCHANGED <<emprimarymuons, emprimarymuonscov>>
        ELSE IF /\ fwdtrack.trackType # GlobalMuonTrack
                /\ fwdtrack.trackType # MuonStandaloneTrack
          THEN call' = NoCall /\ UNCHANGED <<emprimarymuons, emprimarymuonscov>>
        ELSE \E prop \in ProcessProps :
               fillFwdTrackTable(currentCollision, fwdtrack, MatchMCHTrack(fwdtrack),
                                 MatchMFTTrack(fwdtrack),
                                 IF ttca THEN mapAmb[fwdtrack.globalIndex] ELSE FALSE, prop)
  /\ pc' = IF call'.at = "accessingInvalidIndexFor" THEN "aborted" ELSE pc
  /\ todo' = IF call'.at = "accessingInvalidIndexFor" THEN <<>> ELSE Tail(todo)
  /\ UNCHANGED <<cfg, process, mRunNumber, fieldRun, geometryLoaded, lookups, currentCollision,
                 nextCollision,
                 fwdtracks, fwdtrackIndices, mapAmb, em_amb_muon_ids, em_same_mft_ids,
                 mfttracks, fillArgs, resolved, selArgs, selResult>>

(* The end of the collision loop; the TTCA process functions clear mapAmb. *)
EndOfProcess ==
  /\ pc = "collisions"
  /\ todo = <<>>
  /\ nextCollision = NCollisions
  /\ pc' = "done"
  /\ mapAmb' = <<>>
  /\ currentCollision' = NoCollision
  /\ call' = NoCall
  /\ UNCHANGED <<cfg, process, mRunNumber, fieldRun, geometryLoaded, lookups, nextCollision, fwdtracks,
                 fwdtrackIndices, todo, emprimarymuons, emprimarymuonscov,
                 em_amb_muon_ids, em_same_mft_ids, mfttracks, fillArgs, resolved,
                 selArgs, selResult>>

processRec_SA ==
  /\ process = "processRec_SA"
  /\ (CollisionLoop(FALSE, FALSE, FALSE) \/ TrackLoop(FALSE, FALSE) \/ EndOfProcess)

processRec_TTCA ==
  /\ process = "processRec_TTCA"
  /\ (BuildMapAmb \/ CollisionLoop(FALSE, FALSE, TRUE) \/ TrackLoop(FALSE, TRUE)
        \/ EndOfProcess)

processRec_SA_SWT ==
  /\ process = "processRec_SA_SWT"
  /\ (CollisionLoop(TRUE, FALSE, FALSE) \/ TrackLoop(FALSE, FALSE) \/ EndOfProcess)

processRec_TTCA_SWT ==
  /\ process = "processRec_TTCA_SWT"
  /\ (BuildMapAmb \/ CollisionLoop(TRUE, FALSE, TRUE) \/ TrackLoop(FALSE, TRUE)
        \/ EndOfProcess)

processMC_SA ==
  /\ process = "processMC_SA"
  /\ (CollisionLoop(FALSE, TRUE, FALSE) \/ TrackLoop(TRUE, FALSE) \/ EndOfProcess)

processMC_TTCA ==
  /\ process = "processMC_TTCA"
  /\ (BuildMapAmb \/ CollisionLoop(FALSE, TRUE, TRUE) \/ TrackLoop(TRUE, TRUE)
        \/ EndOfProcess)

-----------------------------------------------------------------------------
(* The post-passes over the emitted table.  Row k of the sequence has      *)
(* globalIndex k - 1.                                                      *)
(* The lines 590-599 without the comparison of the global indices.         *)
RECURSIVE SameTrackIds_NoSelfCheck(_, _, _)
SameTrackIds_NoSelfCheck(muons, muon, from) ==
  IF from > Len(muons) THEN <<>>
  ELSE (IF muons[from].fwdtrackId # muons[muon].fwdtrackId THEN <<>>
        ELSE <<from - 1>>)
         \o SameTrackIds_NoSelfCheck(muons, muon, from + 1)

(* The lines 590-599 looking only at the rows after the muon's own.        *)
RECURSIVE SameTrackIds_LaterRowsOnly(_, _, _)
SameTrackIds_LaterRowsOnly(muons, muon, from) ==
  IF from > Len(muons) THEN <<>>
  ELSE (IF muons[from].fwdtrackId # muons[muon].fwdtrackId THEN <<>>
        ELSE IF from - 1 <= muon - 1 THEN <<>>
        ELSE <<from - 1>>)
         \o SameTrackIds_LaterRowsOnly(muons, muon, from + 1)

(* The lines 585-599: muons_with_same_trackId of the row muon of the       *)
(* table, collected from row from on.                                      *)
RECURSIVE SameTrackIds(_, _, _)
SameTrackIds(muons, muon, from) ==
  IF from > Len(muons) THEN <<>>
  ELSE (IF muons[from].fwdtrackId # muons[muon].fwdtrackId THEN <<>>
        ELSE IF from - 1 = muon - 1 THEN <<>>
        ELSE <<from - 1>>)
         \o SameTrackIds(muons, muon, from + 1)

(* associateAmbiguousMuon::process *)
associateAmbiguousMuon ==
  /\ pc = "done"
  /\ "associateAmbiguousMuon" \notin resolved
  /\ em_amb_muon_ids' = [muon \in 1 .. Len(emprimarymuons) |->
                           SameTrackIds(emprimarymuons, muon, 1)]
  /\ resolved' = resolved \cup {"associateAmbiguousMuon"}
  /\ UNCHANGED <<cfg, process, pc, mRunNumber, fieldRun, geometryLoaded, lookups, currentCollision,
                 nextCollision, fwdtracks, fwdtrackIndices, mapAmb, todo, emprimarymuons, emprimarymuonscov,
                 em_same_mft_ids, mfttracks, fillArgs, call, selArgs, selResult>>

(* The lines 615-627 without the comparison of the collisions.             *)
RECURSIVE SameMFTIds_NoCollisionCheck(_, _, _)
SameMFTIds_NoCollisionCheck(muons, muon, from) ==
  IF from > Len(muons) THEN <<>>
  ELSE (IF muons[from].mfttrackId # muons[muon].mfttrackId THEN <<>>
        ELSE IF from - 1 = muon - 1 THEN <<>>
        ELSE <<from - 1>>)
         \o SameMFTIds_NoCollisionCheck(muons, muon, from + 1)

(* The lines 615-627: muons_with_same_mfttrackId of the global-muon row    *)
(* muon of the table, collected from row from on.                          *)
RECURSIVE SameMFTIds(_, _, _)
SameMFTIds(muons, muon, from) ==
  IF from > Len(muons) THEN <<>>
  ELSE (IF muons[from].mfttrackId # muons[muon].mfttrackId THEN <<>>
        ELSE IF from - 1 = muon - 1 THEN <<>>
        ELSE IF muons[from].collisionId = muons[muon].collisionId THEN <<from - 1>>
        ELSE <<>>)
         \o SameMFTIds(muons, muon, from + 1)

(* associateSameMFT::process *)
associateSameMFT ==
  /\ pc = "done"
  /\ "associateSameMFT" \notin resolved
  /\ em_same_mft_ids' = [muon \in 1 .. Len(emprimarymuons) |->
                           IF emprimarymuons[muon].trackType = GlobalMuonTrack
                             THEN SameMFTIds(emprimarymuons, muon, 1)
                             ELSE <<>>]
  /\ resolved' = resolved \cup {"associateSameMFT"}
  /\ UNCHANGED <<cfg, process, pc, mRunNumber, fieldRun, geometryLoaded, lookups, currentCollision,
                 nextCollision, fwdtracks, fwdtrackIndices, mapAmb, todo, emprimarymuons, emprimarymuonscov,
                 em_amb_muon_ids, mfttracks, fillArgs, call, selArgs, selResult>>

-----------------------------------------------------------------------------
(* Spec: one data frame through the enabled process function, then the     *)
(* two post-passes.                                                        *)
Init ==
  /\ process \in Processes
  /\ cfg \in {DefaultCfg, TightCfg}
  /\ fwdtracks \in FwdTrackTables(process)
  /\ mfttracks = MFTTable
  /\ fwdtrackIndices \in IF process \in TTCAProcesses THEN AssocTables ELSE {<<>>}
  /\ pc = IF process \in TTCAProcesses THEN "mapAmb" ELSE "collisions"
  /\ InitTask
  /\ NoSelCall
  /\ fillArgs = <<>>

Next ==
  \/ processRec_SA
  \/ processRec_TTCA
  \/ processRec_SA_SWT
  \/ processRec_TTCA_SWT
  \/ processMC_SA
  \/ processMC_TTCA
  \/ associateAmbiguousMuon
  \/ associateSameMFT

Spec == Init /\ [][Next]_vars

-----------------------------------------------------------------------------
(* SpecPost: the two post-passes on any EMPrimaryMuons table of up to      *)
(* MaxRows rows.  A row is what fillFwdTrackTable writes for a collision   *)
(* and a track; rows of one track agree on its type and its MFT track.     *)
MaxRows == 3

EmittedKinds == {"MCHMID", "MFTMCHMID0", "MFTMCHMID1"}

EmittedRow(collisionId, fwdtrack) ==
  MuonRow([globalIndex |-> collisionId], fwdtrack, fwdtrack.trackType, BaseArgs.pv_pt,
          BaseArgs.pv_eta, BaseArgs.dca_x, BaseArgs.dca_y, BaseArgs.sigma2X, BaseArgs.sigma2Y,
          BaseArgs.sigmaXY, BaseArgs.pvm_pt, BaseArgs.pvm_eta, 50, BaseArgs.rAtAbsorberEnd,
          FALSE)

EmittedTables ==
  {[k \in DOMAIN rows |->
      EmittedRow(rows[k][1], FwdTrackRow(rows[k][2], kinds[rows[k][2]], rows[k][1], 0, TRUE))] :
     kinds \in [TrackIds -> EmittedKinds],
     rows \in UNION {[1 .. len -> CollisionIds \X TrackIds] : len \in 0 .. MaxRows}}

InitPost ==
  /\ process = "associate"
  /\ pc = "done"
  /\ cfg = DefaultCfg
  /\ emprimarymuons \in EmittedTables
  /\ emprimarymuonscov = [k \in DOMAIN emprimarymuons |->
                            [cov |-> BaseArgs.pv_cov,
                             of |-> [collisionId |-> emprimarymuons[k].collisionId,
                                     fwdtrackId |-> emprimarymuons[k].fwdtrackId]]]
  /\ mRunNumber = 0 /\ fieldRun = NoField /\ geometryLoaded = FALSE /\ lookups = <<>>
  /\ em_amb_muon_ids = <<>> /\ em_same_mft_ids = <<>> /\ resolved = {}
  /\ mapAmb = <<>> /\ todo = <<>> /\ currentCollision = NoCollision
  /\ nextCollision = NCollisions
  /\ call = NoCall
  /\ NoInput
  /\ NoSelCall
  /\ fillArgs = <<>>

NextPost ==
  \/ associateAmbiguousMuon
  \/ associateSameMFT

SpecPost == InitPost /\ [][NextPost]_vars

-----------------------------------------------------------------------------
(* Properties of one fillFwdTrackTable call (SpecFill).                    *)
FillReturned == process = "fillFwdTrackTable" /\ pc = "returned"

ReturnPoints == {"chi2MatchMCHMFT", "chi2MatchMCHMID", "chi2", "rAtAbsorberEnd", "dcaXY",
                 "chi2/ndf", "trackType", "isSelected", "end"}

(* C6: a GlobalMuon track whose chi2MatchMCHMFT exceeds                    *)
(* maxMatchingChi2MCHMFT makes fillFwdTrackTable return with no record     *)
(* emitted and no propagateMuon call made.                                 *)
C6_BadMatchReturnsBeforePropagation ==
  (FillReturned /\ call.trackType = GlobalMuonTrack
                /\ call.chi2MatchMCHMFT > cfg.maxMatchingChi2MCHMFT)
    => /\ call.propagated = <<>>
       /\ ~call.emitted
       /\ emprimarymuons = <<>>
       /\ emprimarymuonscov = <<>>

C6_Witness ==
  /\ FillReturned
  /\ call.trackType = GlobalMuonTrack
  /\ call.chi2MatchMCHMFT = 60
  /\ cfg.maxMatchingChi2MCHMFT = 50
  /\ call.at = "chi2MatchMCHMFT"
  /\ call.propagated = <<>>

(* The call of fillArgs, had propagateMuon returned a DCA-plane covariance *)
(* with determinant 1 in place of the one it returned.                     *)
OutcomeWithRegularCovariance ==
  FillOutcome(cfg, ArgCollision(fillArgs), ArgFwdTrack(fillArgs), ArgMCHTrack(fillArgs),
              ArgMFTTrack(fillArgs), fillArgs.isAmbiguous,
              ArgProp(Patch(fillArgs, [sigma2X |-> 1, sigma2Y |-> 1, sigmaXY |-> 0])), fieldRun)

SameButCovariance(m1, m2) ==
  [m1 EXCEPT !.cXXatDCA = 0, !.cYYatDCA = 0, !.cXYatDCA = 0]
    = [m2 EXCEPT !.cXXatDCA = 0, !.cYYatDCA = 0, !.cXYatDCA = 0]

(* C8: when the DCA-plane covariance has a negative determinant the        *)
(* significance is the sentinel 999, the call returns at one of its        *)
(* ordinary return points, and it returns at the same point, with the same *)
(* propagateMuon calls and the same record (covariance columns apart), as  *)
(* the same call with a covariance of positive determinant.                *)
C8_NegativeDeterminantGivesSentinel ==
  (FillReturned /\ Len(call.propagated) >= 2 /\ call.det < 0)
    => /\ call.dcaXYinSigma = [isfinite |-> TRUE, value |-> 999]
       /\ call.at \in ReturnPoints
       /\ call.at = OutcomeWithRegularCovariance.at
       /\ call.emitted = OutcomeWithRegularCovariance.emitted
       /\ call.propagated = OutcomeWithRegularCovariance.propagated
       /\ call.emitted =>
            /\ Len(emprimarymuons) = 1
            /\ SameButCovariance(emprimarymuons[1], OutcomeWithRegularCovariance.muon)
            /\ emprimarymuonscov[1] = OutcomeWithRegularCovariance.cov

C8_Witness ==
  /\ FillReturned
  /\ call.det < 0
  /\ call.emitted
  /\ call.dcaXYinSigma.value = 999
  /\ emprimarymuons[1].cXYatDCA = 2

(* isSelected on the columns of a row of EMPrimaryMuons, with chi2 as the  *)
(* chi2 per degree of freedom.                                             *)
SelectedOnStored(m, chi2) ==
  isSelected(cfg, m.pt, m.eta, m.rAtAbsorberEnd, m.pDCA, chi2, m.trackType,
             Sqrt(m.dcaX * m.dcaX + m.dcaY * m.dcaY))

(* ndf_mchmft of the call of fillArgs (lines 258 and 275).                 *)
NdfOfCall ==
  IF fillArgs.trackType = GlobalMuonTrack
    THEN 2 * (fillArgs.mch_nClusters + fillArgs.mft_nClusters) - 5
    ELSE 1

(* C1 as stated: isSelected evaluated again on the stored pt, eta,         *)
(* rAtAbsorberEnd, pDCA, chi2, trackType and the dcaXY of the stored dcaX  *)
(* and dcaY accepts every emitted record.                                  *)
C1_StoredMetricsAreSelected ==
  FillReturned =>
    \A k \in DOMAIN emprimarymuons :
      SelectedOnStored(emprimarymuons[k], emprimarymuons[k].chi2)

(* C1, amended: isSelected evaluated again on the stored pt, eta,          *)
(* rAtAbsorberEnd, pDCA, trackType, the dcaXY of the stored dcaX and dcaY, *)
(* and the stored chi2 divided by the number of degrees of freedom of the  *)
(* call (1 for a standalone muon, 2 (nClusters MCH + nClusters MFT) - 5    *)
(* for a global muon) accepts every emitted record.                        *)
C1_StoredMetricsWithChi2PerNdfAreSelected ==
  FillReturned =>
    \A k \in DOMAIN emprimarymuons :
      SelectedOnStored(emprimarymuons[k], FDiv(emprimarymuons[k].chi2, NdfOfCall))

C1_Witness ==
  /\ FillReturned
  /\ call.emitted
  /\ Len(emprimarymuons) = 1
  /\ emprimarymuons[1].trackType = GlobalMuonTrack
  /\ NdfOfCall = 25
  /\ emprimarymuons[1].chi2 = 50
  /\ cfg.maxChi2GL = 4

(* C12: a track for which a propagation failed emits neither a candidate  *)
(* row nor a covariance row.                                               *)
C12_FailedPropagationEmitsNothing ==
  (FillReturned /\ call.propagated # <<>> /\ ~call.propagationOk)
    => /\ ~call.emitted
       /\ emprimarymuons = <<>>
       /\ emprimarymuonscov = <<>>

(* C13: a track with a negative chi2 or a negative chi2MatchMCHMID, or of  *)
(* a type other than GlobalMuonTrack and MuonStandaloneTrack, writes no    *)
(* row to either table, and the call returns to the track loop through one *)
(* of its plain return statements.                                         *)
C13_BadTrackIsSkipped ==
  (/\ FillReturned
   /\ \/ fillArgs.chi2 < 0
      \/ fillArgs.chi2MatchMCHMID < 0
      \/ fillArgs.trackType \notin {GlobalMuonTrack, MuonStandaloneTrack})
    => /\ ~call.emitted
       /\ emprimarymuons = <<>>
       /\ emprimarymuonscov = <<>>
       /\ call.at \in {"chi2MatchMCHMFT", "chi2MatchMCHMID", "chi2", "trackType"}

C13_Witness ==
  /\ FillReturned
  /\ fillArgs.trackType = MuonStandaloneTrack
  /\ fillArgs.chi2 = -1
  /\ fillArgs.chi2MatchMCHMID >= 0
  /\ call.at = "chi2"
  /\ call.propagated = <<>>

(* fillFwdTrackTable on a GlobalMuonTrack with the returns of lines        *)
(* 262-282 taken out: whether it emits, and the two rows.                  *)
GlobalOutcomeWithoutEarlyCuts(c, collision, fwdtrack, mchtrack, mfttrack, isAmbiguous, prop) ==
  LET propmuonAtPV == prop.atPV
      propmuonAtDCA == prop.atDCA
      dcaX == propmuonAtDCA.x - collision.posX
      dcaY == propmuonAtDCA.y - collision.posY
      dcaXY == Sqrt(dcaX * dcaX + dcaY * dcaY)
      ndf_mchmft == 2 * (mchtrack.nClusters + mfttrack.nClusters) - 5
      propmuonAtPV_Matched == prop.atPV_Matched
      propmuonAtDCA_Matched == prop.atDCA_Matched
      dcaX_Matched == propmuonAtDCA_Matched.x - collision.posX
      dcaY_Matched == propmuonAtDCA_Matched.y - collision.posY
      dcaXY_Matched == Sqrt(dcaX_Matched * dcaX_Matched + dcaY_Matched * dcaY_Matched)
      pDCA == mchtrack.p * dcaXY_Matched
      eta == IF c.refitGlobalMuon THEN mfttrack.eta ELSE propmuonAtPV.eta
      pt == IF c.refitGlobalMuon
              THEN (propmuonAtPV_Matched.p * SinThetaPermille(mfttrack.eta)) \div 100
              ELSE propmuonAtPV.pt
  IN IF ReturnsBeforePropagation(c, fwdtrack) # "no" THEN [emitted |-> FALSE]
     ELSE IF AccessingInvalidIndex(fwdtrack) THEN [emitted |-> FALSE]
     ELSE IF ~isSelected(c, pt, eta, fwdtrack.rAtAbsorberEnd, pDCA,
                         FDiv(fwdtrack.chi2, ndf_mchmft), fwdtrack.trackType, dcaXY)
       THEN [emitted |-> FALSE]
     ELSE [emitted |-> TRUE,
           muon |-> MuonRow(collision, fwdtrack, fwdtrack.trackType, pt, eta, dcaX, dcaY,
                            propmuonAtDCA.sigma2X, propmuonAtDCA.sigma2Y,
                            propmuonAtDCA.sigmaXY, propmuonAtPV_Matched.pt,
                            propmuonAtPV_Matched.eta, pDCA, fwdtrack.rAtAbsorberEnd,
                            isAmbiguous),
           cov |-> CovRow(collision, fwdtrack, propmuonAtPV)]

WithoutEarlyCuts ==
  GlobalOutcomeWithoutEarlyCuts(cfg, ArgCollision(fillArgs), ArgFwdTrack(fillArgs),
                                ArgMCHTrack(fillArgs), ArgMFTTrack(fillArgs),
                                fillArgs.isAmbiguous, ArgProp(fillArgs))

(* C14: on a GlobalMuonTrack, fillFwdTrackTable emits exactly when it      *)
(* would without its three early returns on the absorber-end radius, the   *)
(* dcaXY and the chi2 per degree of freedom, and it emits the same rows.   *)
C14_EarlyGlobalCutsAreRedundant ==
  (FillReturned /\ fillArgs.trackType = GlobalMuonTrack)
    => /\ call.emitted = WithoutEarlyCuts.emitted
       /\ call.emitted =>
            /\ emprimarymuons = <<WithoutEarlyCuts.muon>>
            /\ emprimarymuonscov = <<WithoutEarlyCuts.cov>>

C14_Witness ==
  /\ FillReturned
  /\ fillArgs.trackType = GlobalMuonTrack
  /\ call.at = "chi2/ndf"
  /\ Len(call.propagated) = 2
  /\ ~WithoutEarlyCuts.emitted

(* The momentum factor of pDCA: of the matched MCH-MID track for a global  *)
(* muon, of the track itself for a standalone muon.                        *)
MomentumOfCall ==
  IF fillArgs.trackType = GlobalMuonTrack THEN fillArgs.mch_p ELSE fillArgs.p

StoredDcaXY(m) == Sqrt(m.dcaX * m.dcaX + m.dcaY * m.dcaY)

(* dcaXY_Matched of the call of fillArgs (lines 290-293): the DCA of the   *)
(* matched MCH-MID track.                                                  *)
DcaXYMatchedOfCall ==
  Sqrt((fillArgs.dcam_x - fillArgs.posX) * (fillArgs.dcam_x - fillArgs.posX)
         + (fillArgs.dcam_y - fillArgs.posY) * (fillArgs.dcam_y - fillArgs.posY))

(* C15 as stated: the stored pDCA is the momentum factor times the dcaXY   *)
(* of the stored dcaX and dcaY.                                            *)
C15_PDCAIsMomentumTimesStoredDca ==
  (FillReturned /\ call.emitted)
    => emprimarymuons[1].pDCA = MomentumOfCall * StoredDcaXY(emprimarymuons[1])

(* C15, amended: for a standalone muon the stored pDCA is the track's      *)
(* momentum times the dcaXY of the stored dcaX and dcaY; for a global muon *)
(* it is the momentum of the matched MCH-MID track times the dcaXY of that *)
(* MCH-MID track propagated to the DCA plane, which is not stored; in both *)
(* cases the stored pDCA passes the cut of isSelected.                     *)
C15_PDCAIsMomentumTimesDcaOfSameTrack ==
  (FillReturned /\ call.emitted)
    => LET m == emprimarymuons[1]
       IN /\ m.trackType = MuonStandaloneTrack => m.pDCA = fillArgs.p * StoredDcaXY(m)
          /\ m.trackType = GlobalMuonTrack => m.pDCA = fillArgs.mch_p * DcaXYMatchedOfCall
          /\ m.pDCA <= (IF m.rAtAbsorberEnd < cfg.midRabs THEN cfg.maxPDCAforSmallR
                                                         ELSE cfg.maxPDCAforLargeR)

C15_Witness ==
  /\ FillReturned
  /\ call.emitted
  /\ emprimarymuons[1].trackType = GlobalMuonTrack
  /\ StoredDcaXY(emprimarymuons[1]) = 10
  /\ DcaXYMatchedOfCall = 5
  /\ emprimarymuons[1].pDCA = 50

(* The call of fillArgs is over: it returned, or a getter raised.          *)
FillOver == process = "fillFwdTrackTable" /\ pc \in {"returned", "aborted"}

InvalidLinkOfCall == fillArgs.matchMCHTrackId < 0 \/ fillArgs.matchMFTTrackId < 0

-----------------------------------------------------------------------------
(* Properties of one isSelected call (SpecSel).                            *)
SelReturned == process = "isSelected" /\ pc = "returned"

AcceptancePolicy(c, a) ==
  /\ c.minPt <= a.pt /\ a.pt <= c.maxPt
  /\ c.minRabs <= a.rAtAbsorberEnd /\ a.rAtAbsorberEnd <= c.maxRabs
  /\ a.pDCA <= (IF a.rAtAbsorberEnd < c.midRabs THEN c.maxPDCAforSmallR
                                                ELSE c.maxPDCAforLargeR)
  /\ \/ /\ a.trackType = GlobalMuonTrack
        /\ c.minEtaGL <= a.eta /\ a.eta <= c.maxEtaGL
        /\ a.dcaXY <= c.maxDCAxy
        /\ a.chi2_per_ndf <= c.maxChi2GL
        /\ c.minRabsGL <= a.rAtAbsorberEnd /\ a.rAtAbsorberEnd <= c.maxRabs
     \/ /\ a.trackType = MuonStandaloneTrack
        /\ c.minEtaSA <= a.eta /\ a.eta <= c.maxEtaSA
        /\ a.chi2_per_ndf <= c.maxChi2SA

-----------------------------------------------------------------------------
(* Properties of a data frame through a process function (Spec).           *)
Range(seq) == {seq[k] : k \in DOMAIN seq}

IsResolved(task) == pc = "done" /\ task \in resolved

(* C2: the two tables have the same number of rows, and row k of the       *)
(* covariance table was written by the call, for the same track and the    *)
(* same collision, that wrote row k of the candidate table.                *)
C2_CovarianceRowPerCandidateRow ==
  /\ Len(emprimarymuonscov) = Len(emprimarymuons)
  /\ \A k \in DOMAIN emprimarymuons :
       /\ emprimarymuonscov[k].of.collisionId = emprimarymuons[k].collisionId
       /\ emprimarymuonscov[k].of.fwdtrackId = emprimarymuons[k].fwdtrackId

C2_Witness ==
  /\ pc = "collisions"
  /\ call.at = "isSelected"
  /\ Len(emprimarymuons) = 2
  /\ Len(emprimarymuonscov) = 2
  /\ emprimarymuons[1].fwdtrackId # emprimarymuons[2].fwdtrackId

(* C3: no row's list of either post-pass holds the row's own index.        *)
C3_NoListHoldsItsOwnIndex ==
  /\ \A i \in DOMAIN em_amb_muon_ids : (i - 1) \notin Range(em_amb_muon_ids[i])
  /\ \A i \in DOMAIN em_same_mft_ids : (i - 1) \notin Range(em_same_mft_ids[i])

C3_Witness ==
  /\ IsResolved("associateAmbiguousMuon")
  /\ IsResolved("associateSameMFT")
  /\ \E i \in DOMAIN em_amb_muon_ids : em_amb_muon_ids[i] # <<>>
  /\ \E i \in DOMAIN em_same_mft_ids : em_same_mft_ids[i] # <<>>

(* C4: two rows with the same mfttrackId and different collisionId are in  *)
(* neither's list of associateSameMFT.                                     *)
C4_SameMFTOtherCollisionNotListed ==
  \A i, j \in DOMAIN em_same_mft_ids :
    (/\ emprimarymuons[i].mfttrackId = emprimarymuons[j].mfttrackId
     /\ emprimarymuons[i].collisionId # emprimarymuons[j].collisionId)
      => /\ (j - 1) \notin Range(em_same_mft_ids[i])
         /\ (i - 1) \notin Range(em_same_mft_ids[j])

C4_Witness ==
  /\ IsResolved("associateSameMFT")
  /\ \E i, j \in DOMAIN em_same_mft_ids :
       /\ emprimarymuons[i].trackType = GlobalMuonTrack
       /\ emprimarymuons[j].trackType = GlobalMuonTrack
       /\ emprimarymuons[i].mfttrackId = emprimarymuons[j].mfttrackId
       /\ emprimarymuons[i].collisionId # emprimarymuons[j].collisionId
       /\ em_same_mft_ids[i] # <<>>
       /\ em_same_mft_ids[j] = <<>>

(* The indices of the rows other than row i with the fwdtrackId of row i.  *)
OtherRowsOfTrack(i) ==
  {j - 1 : j \in {k \in DOMAIN emprimarymuons :
                    k # i /\ emprimarymuons[k].fwdtrackId = emprimarymuons[i].fwdtrackId}}

(* C5: the list of associateAmbiguousMuon of a row is the indices of the   *)
(* other rows with the row's fwdtrackId, each once, in table order.        *)
C5_AmbiguousListIsOtherRowsOfTrack ==
  \A i \in DOMAIN em_amb_muon_ids :
    LET ids == em_amb_muon_ids[i]
    IN /\ Range(ids) = OtherRowsOfTrack(i)
       /\ \A a, b \in DOMAIN ids : a < b => ids[a] < ids[b]

C5_Witness ==
  /\ IsResolved("associateAmbiguousMuon")
  /\ Len(emprimarymuons) = 3
  /\ \E i, j, k \in DOMAIN emprimarymuons :
       /\ i < j
       /\ emprimarymuons[i].fwdtrackId = emprimarymuons[j].fwdtrackId
       /\ emprimarymuons[i].collisionId # emprimarymuons[j].collisionId
       /\ emprimarymuons[k].fwdtrackId # emprimarymuons[i].fwdtrackId
       /\ em_amb_muon_ids[i] = <<j - 1>>
       /\ em_amb_muon_ids[j] = <<i - 1>>
       /\ em_amb_muon_ids[k] = <<>>

(* The step is one initCCDB call: the collision loop moves to its next row *)
(* (lines 414, 439, 465, 492, 522, 550).                                   *)
IsInitCCDBCall == nextCollision' = nextCollision + 1

(* C9: a call of initCCDB looks the field up exactly when the run of its   *)
(* bunch crossing is not the run whose field is loaded, the first call,    *)
(* with no field loaded, included; a call for the run already loaded       *)
(* leaves the cache as it is.                                              *)
C9_LookupExactlyWhenRunDiffers ==
  [][IsInitCCDBCall =>
       LET runNumber == currentCollision'.runNumber
       IN /\ (lookups' = Append(lookups, runNumber)) <=> (fieldRun # runNumber)
          /\ (lookups' = lookups) <=> (fieldRun = runNumber)
          /\ fieldRun = runNumber => UNCHANGED <<mRunNumber, fieldRun>>]_vars

(* C10: every propagateMuon call made for a track of a collision of run r  *)
(* runs with the field of run r loaded, after a lookup for run r.          *)
C10_PropagationUsesFieldOfItsRun ==
  \A k \in DOMAIN call.propagated :
    /\ call.propagated[k].field = call.runNumber
    /\ call.runNumber \in Range(lookups)

(* The lookup for the run in mRunNumber failed: the task died in it, or    *)
(* it left a field built from no GRPMagField object or no geometry.        *)
LookupFailed ==
  /\ lookups # <<>>
  /\ (pc = "aborted" \/ fieldRun = BadField \/ ~geometryLoaded)

(* C11: when the lookup for a run fails, no propagateMuon call is made and *)
(* no record is emitted for a collision of that run, and the task does not *)
(* go on with the run recorded as loaded.                                  *)
C11_FailedLookupAbortsRun ==
  LookupFailed =>
    /\ call.propagated = <<>>
    /\ ~call.emitted
    /\ pc = "aborted"


(* A step that leaves both tables alone.                                   *)
TablesUnchanged == UNCHANGED <<emprimarymuons, emprimarymuonscov>>

(* A step that adds one row at the end of each table, for the next track   *)
(* of the track loop of the current collision.                             *)
AppendsRowOfIteration ==
  /\ pc = "collisions" /\ todo # <<>>
  /\ Len(emprimarymuons') = Len(emprimarymuons) + 1
  /\ Len(emprimarymuonscov') = Len(emprimarymuonscov) + 1
  /\ SubSeq(emprimarymuons', 1, Len(emprimarymuons)) = emprimarymuons
  /\ SubSeq(emprimarymuonscov', 1, Len(emprimarymuonscov)) = emprimarymuonscov
  /\ LET m == emprimarymuons'[Len(emprimarymuons')]
     IN /\ m.collisionId = currentCollision.globalIndex
        /\ m.fwdtrackId = Head(todo)
        /\ \A k \in DOMAIN emprimarymuons : emprimarymuons[k].collisionId <= m.collisionId
        /\ process \in SAProcesses =>
             \A k \in DOMAIN emprimarymuons : emprimarymuons[k].fwdtrackId < m.fwdtrackId

(* C16: every step leaves the candidate table and the covariance table as  *)
(* they are or appends one row to each, for the track the iteration is at: *)
(* rows come in collision order and, within a collision, in the order of   *)
(* its tracks or associations; no row is inserted before another or        *)
(* changed once written.                                                   *)
C16_RowsAreAppendedInIterationOrder ==
  [][TablesUnchanged \/ AppendsRowOfIteration]_vars

C16_Witness ==
  /\ Len(emprimarymuons) = 2
  /\ emprimarymuons[1].collisionId = 0
  /\ emprimarymuons[2].collisionId = 1
  /\ emprimarymuons[1].fwdtrackId # emprimarymuons[2].fwdtrackId


(* The number of association rows of the input that hold the track.        *)
AssociationsOf(fwdtrackId) ==
  Cardinality({k \in DOMAIN fwdtrackIndices : fwdtrackIndices[k].fwdtrackId = fwdtrackId})

(* C17: in the TTCA process functions a row's isAmbiguous is true exactly  *)
(* when its track is in more than one row of the association table, and no *)
(* row is written before the flag of every track is computed; in the SA    *)
(* process functions isAmbiguous is false in every row.                    *)
C17_IsAmbiguousCountsAssociations ==
  /\ process \in TTCAProcesses =>
       /\ \A k \in DOMAIN emprimarymuons :
            emprimarymuons[k].isAmbiguous = (AssociationsOf(emprimarymuons[k].fwdtrackId) > 1)
       /\ pc = "mapAmb" => emprimarymuons = <<>>
       /\ pc = "collisions" => DOMAIN mapAmb = DOMAIN fwdtracks
  /\ process \in SAProcesses =>
       \A k \in DOMAIN emprimarymuons : ~emprimarymuons[k].isAmbiguous

C17_Witness ==
  /\ process \in TTCAProcesses
  /\ \E k, l \in DOMAIN emprimarymuons :
       /\ emprimarymuons[k].isAmbiguous
       /\ AssociationsOf(emprimarymuons[k].fwdtrackId) = 2
       /\ ~emprimarymuons[l].isAmbiguous
       /\ AssociationsOf(emprimarymuons[l].fwdtrackId) = 1


(* No (collision, track) pair is in two rows of the association table.     *)
NoDuplicatePairs ==
  \A k, l \in DOMAIN fwdtrackIndices : fwdtrackIndices[k] = fwdtrackIndices[l] => k = l

(* C19: once associateAmbiguousMuon has run on the table of a process      *)
(* function whose association table holds no pair twice, a row with a      *)
(* non-empty list of rows of the same track has isAmbiguous set; after an  *)
(* SA process function every such list is empty.                           *)
C19_AmbiguousListImpliesFlag ==
  (IsResolved("associateAmbiguousMuon") /\ NoDuplicatePairs) =>
    /\ \A k \in DOMAIN emprimarymuons :
         em_amb_muon_ids[k] # <<>> => emprimarymuons[k].isAmbiguous
    /\ process \in SAProcesses =>
         \A k \in DOMAIN emprimarymuons : em_amb_muon_ids[k] = <<>>

C19_Witness ==
  /\ IsResolved("associateAmbiguousMuon")
  /\ NoDuplicatePairs
  /\ process \in TTCAProcesses
  /\ \E k, l \in DOMAIN emprimarymuons :
       /\ em_amb_muon_ids[k] # <<>>
       /\ emprimarymuons[k].isAmbiguous
       /\ em_amb_muon_ids[l] = <<>>


(* The collision fails a gate of the process function.                     *)
Gated(row) ==
  \/ ~row.isSelected
  \/ process \in SWTProcesses /\ row.swtaliastmp_raw = 0
  \/ process \in MCProcesses /\ ~row.has_mcCollision

(* A step that writes a row writes it for the current collision, which     *)
(* passes every gate, and in the MC process functions for a track with an  *)
(* MC particle.                                                            *)
RowOnlyOfUngatedCollision ==
  emprimarymuons' # emprimarymuons =>
    LET m == emprimarymuons'[Len(emprimarymuons')]
    IN /\ m.collisionId = currentCollision.globalIndex
       /\ ~Gated(currentCollision)
       /\ process \in MCProcesses => fwdtracks[m.fwdtrackId].has_mcParticle

(* The step of the collision loop on a collision that fails a gate does to *)
(* the cached run what initCCDB does, and leaves the tables, mapAmb and    *)
(* the input tables alone, with no track to loop over.                     *)
GatedCollisionOnlyCallsInitCCDB ==
  (IsInitCCDBCall /\ Gated(currentCollision')) =>
    /\ mRunNumber' = currentCollision'.runNumber
    /\ lookups' = IF mRunNumber = currentCollision'.runNumber
                    THEN lookups ELSE Append(lookups, currentCollision'.runNumber)
    /\ todo' = <<>>
    /\ UNCHANGED <<emprimarymuons, emprimarymuonscov, mapAmb, fwdtracks, fwdtrackIndices,
                   mfttracks, cfg>>

(* C20: no row is written for a collision with isSelected false, with no   *)
(* trigger bit set (SWT), or without MC collision (MC), nor for a track    *)
(* without MC particle (MC); a collision that fails a gate still goes      *)
(* through initCCDB, and changes nothing the rows of other collisions are  *)
(* made from.                                                              *)
C20_GatedCollisionEmitsNothing ==
  [][RowOnlyOfUngatedCollision /\ GatedCollisionOnlyCallsInitCCDB]_vars

C20_Witness ==
  /\ pc = "collisions"
  /\ process \in SAProcesses
  /\ currentCollision.globalIndex = 1
  /\ Gated(currentCollision)
  /\ \E t \in DOMAIN fwdtracks :
       fwdtracks[t].collisionId = 1 /\ fwdtracks[t].trackType = MuonStandaloneTrack
  /\ todo = <<>>
  /\ emprimarymuons # <<>>
  /\ mRunNumber = 1
  /\ lookups = <<1>>

====
